---- MODULE Spec2Model ----
(***************************************************************************)
(* Model of DisCapTy's Challenge state machine (discapty/challenge.py) and *)
(* of the Captcha value object (discapty/captcha.py).                      *)
(*                                                                         *)
(* Strings are sequences of one-character strings.  Python's None is the   *)
(* empty option <<>>, a present value x is <<x>>; fail_reason, which only  *)
(* ever holds strings, uses the string "None".                             *)
(*                                                                         *)
(* The CaptchaQueue (discapty/captcha_queue.py) is the record q; the       *)
(* challenges it has created live in heap, and a reference to a challenge  *)
(* (the value of the registry, the handle the caller keeps) is its index   *)
(* in heap.  threads holds the create_challenge calls that several threads *)
(* run on one queue at the same time: the line each has reached and its    *)
(* local variables.  tgen is the last call of TextGenerator.generate.      *)
(***************************************************************************)
EXTENDS Integers, Sequences, FiniteSets, TLC

VARIABLES ch, gen_calls, last, hist, cap, cap_last, q, heap, qlast, qhist, threads,
          tgen

vars == <<ch, gen_calls, last, hist, cap, cap_last, q, heap, qlast, qhist, threads,
          tgen>>

(***************************************************************************)
(* Bounds of the model.                                                    *)
(***************************************************************************)
\* operations performed on one challenge
MaxOps == 4
\* reloads performed on one challenge
MaxReloads == 2
\* length of an explicit code given by the caller
MaxCodeLen == 1
\* largest retries argument given by the caller
MaxRetries == 1
\* calls made on one queue and on the challenges it created
MaxQueueOps == 3
\* threads calling create_challenge on one queue
MaxThreads == 2
\* length of a text given to TextGenerator.generate
MaxGenTextLen == 3
\* calls in which the generator raises
MaxGeneratorErrors == 1
\* length of a candidate text given to Captcha.check
MaxTextLen == 3
\* length of the code of a Captcha built directly
MaxCaptchaCodeLen == 2

(***************************************************************************)
(* Program constants.                                                      *)
(***************************************************************************)
DefaultRetries == 3
DefaultCodeLength == 4

None == <<>>
NoReason == "None"

Some(x) == <<x>>

\* no exception raised, and the exception of a type with its message
NoError == [type |-> "None", msg |-> "None"]
Error(type, msg) == [type |-> type, msg |-> msg]

\* the characters an explicit code or an answer is made of
Chars == {"A", "a", " "}
\* ascii_uppercase + digits, the alphabet of random_code, cut to two letters
RandomAlphabet == {"A", "1"}

PENDING == "PENDING"
WAITING == "WAITING"
COMPLETED == "COMPLETED"
FAILED == "FAILED"
FAILURE == "FAILURE"
States == {PENDING, WAITING, COMPLETED, FAILED, FAILURE}

TOO_MANY_RETRIES == "Too many retries"
CANCELLED == "Challenge has been cancelled"

(***************************************************************************)
(* Strings.                                                                *)
(***************************************************************************)
SeqsUpTo(S, n) == UNION {[1..k -> S] : k \in 0..n}

\* str.lower() on one character
LowerChar(x) == IF x = "A" THEN "a" ELSE x

\* str.lower()
Lower(s) == [i \in 1..Len(s) |-> LowerChar(s[i])]

IsNotSpace(x) == x # " "

\* str.replace(" ", "")
RemoveSpaces(s) == SelectSeq(s, IsNotSpace)

\* random_code(characters_length): the codes choices() may return;
\* choices(..., k) with a negative k returns the empty list
random_code(characters_length) ==
    LET k == IF characters_length = None \/ characters_length = Some(0)
             THEN DefaultCodeLength ELSE characters_length[1]
    IN  IF k < 0 THEN {<<>>} ELSE [1..k -> RandomAlphabet]

(***************************************************************************)
(* Generator and Captcha.                                                  *)
(***************************************************************************)
\* Generator.generate(text): the artifact of the serial-th invocation
generate(text, serial) == [text |-> text, serial |-> serial]

\* Captcha(code, captcha_object); oid is the identity of the instance
Captcha(code, captcha_object, oid) ==
    [code |-> code, captcha_object |-> captcha_object, oid |-> oid]

\* Captcha.check
CaptchaCheck(captcha, text, force_casing, remove_spaces) ==
    LET t1 == IF remove_spaces THEN RemoveSpaces(text) ELSE text
        t2 == IF force_casing THEN t1 ELSE Lower(t1)
        code == IF force_casing THEN captcha.code ELSE Lower(captcha.code)
    IN  code = t2

\* Captcha.check that keeps the lowered code in self.code
CaptchaCheckCall_lowers(captcha, text, force_casing, remove_spaces) ==
    [captcha |-> IF force_casing THEN captcha
                 ELSE [captcha EXCEPT !.code = Lower(@)],
     ret |-> CaptchaCheck(captcha, text, force_casing, remove_spaces)]

\* a call of Captcha.check: the Captcha after the call, which assigns
\* nothing to self, and the value returned
CaptchaCheckCall(captcha, text, force_casing, remove_spaces) ==
    [captcha |-> captcha,
     ret |-> CaptchaCheck(captcha, text, force_casing, remove_spaces)]

(***************************************************************************)
(* TextGenerator.  Its separator is a string, [kind |-> "str"], or a list  *)
(* of strings, [kind |-> "list"].                                          *)
(***************************************************************************)
\* str.join over the characters of text
RECURSIVE join(_, _)
join(separator, text) ==
    IF Len(text) <= 1 THEN text
    ELSE <<text[1]>> \o separator \o join(separator, Tail(text))

\* the loop of generate that puts a separator after the last character too
RECURSIVE generate_loop_trailing(_, _, _, _)
generate_loop_trailing(text, picks, position, new_string) ==
    IF position > Len(text) THEN new_string
    ELSE generate_loop_trailing(text, picks, position + 1,
                                new_string \o <<text[position]>> \o picks[position])

\* the loop of generate over enumerate(text), position counted from 1;
\* picks[position] is what choice(self.separator) returns at that position
RECURSIVE generate_loop(_, _, _, _)
generate_loop(text, picks, position, new_string) ==
    IF position > Len(text) THEN new_string
    ELSE generate_loop(text, picks, position + 1,
                       new_string \o <<text[position]>>
                           \o (IF position < Len(text) THEN picks[position] ELSE <<>>))

\* what a call of generate gives: the value returned and the error raised
Generated(ret, err) == [ret |-> ret, err |-> err]

\* generate that ends the text with a separator
TextGenerator_generate_trailing(separator, text, picks) ==
    IF separator.kind = "str"
    THEN Generated(Some(join(separator.value, text)), NoError)
    ELSE IF text # <<>> /\ separator.value = <<>>
    THEN Generated(None, Error("IndexError", "Cannot choose from an empty sequence"))
    ELSE Generated(Some(generate_loop_trailing(text, picks, 1, <<>>)), NoError)

\* TextGenerator.generate
TextGenerator_generate(separator, text, picks) ==
    IF separator.kind = "str"
    THEN Generated(Some(join(separator.value, text)), NoError)
    ELSE IF text # <<>> /\ separator.value = <<>>
    THEN Generated(None, Error("IndexError", "Cannot choose from an empty sequence"))
    ELSE Generated(Some(generate_loop(text, picks, 1, <<>>)), NoError)

\* no call of TextGenerator.generate made yet
NoGenerate ==
    [called |-> FALSE, separator |-> [kind |-> "str", value |-> <<>>],
     text |-> <<>>, picks |-> <<>>, ret |-> None, err |-> NoError]

(***************************************************************************)
(* Challenge.                                                              *)
(***************************************************************************)
\* the outcome of a method: the challenge after it, the value returned
\* (None when it raises or returns nothing), the error raised, and the
\* number of generator invocations it made
Outcome(c, ret, err, calls) == [c |-> c, ret |-> ret, err |-> err, calls |-> calls]

\* Challenge.__init__ with the code already drawn
ChallengeInit(allowed_retries, code) ==
    [code |-> code,
     allowed_retries |-> IF allowed_retries = None \/ allowed_retries = Some(0)
                         THEN DefaultRetries ELSE allowed_retries[1],
     failures |-> 0,
     attempted_tries |-> 0,
     state |-> PENDING,
     fail_reason |-> NoReason,
     last_captcha_class |-> None,
     last_code |-> None]

\* _set_state that records a fail reason for FAILED only
set_state_failed_only(c, state, fail_reason) ==
    LET c1 == [c EXCEPT !.state = state]
    IN  IF c1.state = FAILED /\ fail_reason # NoReason
        THEN [c1 EXCEPT !.fail_reason = fail_reason]
        ELSE c1

\* Challenge._set_state
set_state(c, state, fail_reason) ==
    LET c1 == [c EXCEPT !.state = state]
    IN  IF c1.state \in {FAILED, FAILURE} /\ fail_reason # NoReason
        THEN [c1 EXCEPT !.fail_reason = fail_reason]
        ELSE c1

\* _can_be_modified that takes the cancelled state for a running one
can_be_modified_cancelled(c) == c.state \in {PENDING, WAITING, FAILURE}

\* Challenge._can_be_modified
can_be_modified(c) == c.state \in {PENDING, WAITING}

\* is_completed that counts a cancelled challenge as completed
is_completed_terminal(c) == c.state \in {COMPLETED, FAILED, FAILURE}

\* Challenge.is_completed
is_completed(c) == c.state \in {COMPLETED, FAILED}

\* Challenge.is_correct
is_correct(c) == IF is_completed(c) THEN Some(c.state = COMPLETED) ELSE None

\* Challenge.is_wrong
is_wrong(c) == IF is_completed(c) THEN Some(c.state = FAILED) ELSE None

\* _create_captcha that does not compare the code with the cached one
create_captcha_stale(c, n) ==
    IF c.last_captcha_class = None
    THEN LET generated_captcha == generate(c.code, n + 1)
         IN  [c |-> [c EXCEPT !.last_captcha_class =
                                   Some(Captcha(c.code, generated_captcha, n + 1)),
                              !.last_code = Some(c.code)],
              captcha |-> Captcha(c.code, generated_captcha, n + 1),
              calls |-> 1]
    ELSE [c |-> c, captcha |-> c.last_captcha_class[1], calls |-> 0]

\* _create_captcha that keeps no cache
create_captcha_always(c, n) ==
    LET generated_captcha == generate(c.code, n + 1)
    IN  [c |-> [c EXCEPT !.last_captcha_class =
                             Some(Captcha(c.code, generated_captcha, n + 1)),
                         !.last_code = Some(c.code)],
         captcha |-> Captcha(c.code, generated_captcha, n + 1),
         calls |-> 1]

\* Challenge._create_captcha; n is the number of generator invocations so far
create_captcha(c, n) ==
    IF c.last_captcha_class = None \/ Some(c.code) # c.last_code
    THEN LET generated_captcha == generate(c.code, n + 1)
         IN  [c |-> [c EXCEPT !.last_captcha_class =
                                   Some(Captcha(c.code, generated_captcha, n + 1)),
                              !.last_code = Some(c.code)],
              captcha |-> Captcha(c.code, generated_captcha, n + 1),
              calls |-> 1]
    ELSE [c |-> c, captcha |-> c.last_captcha_class[1], calls |-> 0]

\* the rejections of Challenge.begin
BeginFailed(c) ==
    Outcome(c, None,
            Error("TooManyRetriesError",
                  IF c.fail_reason # NoReason THEN c.fail_reason
                  ELSE "Failed (No failed reason)"), 0)
BeginFailure(c) ==
    Outcome(c, None,
            Error("ChallengeCompletionError",
                  IF c.fail_reason # NoReason THEN c.fail_reason
                  ELSE "Failure (No failure reason)"), 0)
BeginCompleted(c) ==
    Outcome(c, None, Error("AlreadyCompletedError", "Challenge already completed"), 0)
BeginWaiting(c) ==
    Outcome(c, None, Error("AlreadyRunningError", "Challenge is already being ran"), 0)

\* begin that returns the artifact without moving to WAITING
begin_keeps_state(c, n) ==
    IF c.state = FAILED THEN BeginFailed(c)
    ELSE IF c.state = FAILURE THEN BeginFailure(c)
    ELSE IF c.state = COMPLETED THEN BeginCompleted(c)
    ELSE IF c.state = WAITING THEN BeginWaiting(c)
    ELSE LET cc == create_captcha(c, n)
         IN  Outcome(cc.c, Some(cc.captcha.captcha_object), NoError, cc.calls)

\* begin that does not reject a running challenge
begin_again(c, n) ==
    IF c.state = FAILED THEN BeginFailed(c)
    ELSE IF c.state = FAILURE THEN BeginFailure(c)
    ELSE IF c.state = COMPLETED THEN BeginCompleted(c)
    ELSE LET cc == create_captcha(set_state(c, WAITING, NoReason), n)
         IN  Outcome(cc.c, Some(cc.captcha.captcha_object), NoError, cc.calls)

\* Challenge.begin
begin(c, n) ==
    IF c.state = FAILED THEN BeginFailed(c)
    ELSE IF c.state = FAILURE THEN BeginFailure(c)
    ELSE IF c.state = COMPLETED THEN BeginCompleted(c)
    ELSE IF c.state = WAITING THEN BeginWaiting(c)
    ELSE LET cc == create_captcha(set_state(c, WAITING, NoReason), n)
         IN  Outcome(cc.c, Some(cc.captcha.captcha_object), NoError, cc.calls)

\* check that fails the challenge only when failures exceeds allowed_retries
check_exceeds(c, n, answer, force_casing, remove_spaces) ==
    IF ~can_be_modified(c)
    THEN Outcome(c, None, Error("TypeError", "Challenge cannot be edited"), 0)
    ELSE LET cc == create_captcha([c EXCEPT !.attempted_tries = @ + 1], n)
         IN  IF ~CaptchaCheck(cc.captcha, answer, force_casing, remove_spaces)
             THEN LET c2 == [cc.c EXCEPT !.failures = @ + 1]
                  IN  IF c2.failures > c2.allowed_retries
                      THEN LET c3 == set_state(c2, FAILED, TOO_MANY_RETRIES)
                           IN  Outcome(c3, None,
                                       Error("TooManyRetriesError", c3.fail_reason),
                                       cc.calls)
                      ELSE Outcome(c2, Some(FALSE), NoError, cc.calls)
             ELSE Outcome(set_state(cc.c, COMPLETED, NoReason), Some(TRUE), NoError,
                          cc.calls)

\* check that looks at the retries left before it looks at the answer
check_retries_first(c, n, answer, force_casing, remove_spaces) ==
    IF ~can_be_modified(c)
    THEN Outcome(c, None, Error("TypeError", "Challenge cannot be edited"), 0)
    ELSE LET cc == create_captcha([c EXCEPT !.attempted_tries = @ + 1], n)
         IN  IF cc.c.failures + 1 >= cc.c.allowed_retries
                \/ ~CaptchaCheck(cc.captcha, answer, force_casing, remove_spaces)
             THEN LET c2 == [cc.c EXCEPT !.failures = @ + 1]
                  IN  IF c2.failures >= c2.allowed_retries
                      THEN LET c3 == set_state(c2, FAILED, TOO_MANY_RETRIES)
                           IN  Outcome(c3, None,
                                       Error("TooManyRetriesError", c3.fail_reason),
                                       cc.calls)
                      ELSE Outcome(c2, Some(FALSE), NoError, cc.calls)
             ELSE Outcome(set_state(cc.c, COMPLETED, NoReason), Some(TRUE), NoError,
                          cc.calls)

\* Challenge.check
check(c, n, answer, force_casing, remove_spaces) ==
    IF ~can_be_modified(c)
    THEN Outcome(c, None, Error("TypeError", "Challenge cannot be edited"), 0)
    ELSE LET cc == create_captcha([c EXCEPT !.attempted_tries = @ + 1], n)
         IN  IF ~CaptchaCheck(cc.captcha, answer, force_casing, remove_spaces)
             THEN LET c2 == [cc.c EXCEPT !.failures = @ + 1]
                  IN  IF c2.failures >= c2.allowed_retries
                      THEN LET c3 == set_state(c2, FAILED, TOO_MANY_RETRIES)
                           IN  Outcome(c3, None,
                                       Error("TooManyRetriesError", c3.fail_reason),
                                       cc.calls)
                      ELSE Outcome(c2, Some(FALSE), NoError, cc.calls)
             ELSE Outcome(set_state(cc.c, COMPLETED, NoReason), Some(TRUE), NoError,
                          cc.calls)

\* reload that accepts a challenge that has not begun
reload_pending(c, n, new_code, increase_attempted_tries, increase_failures) ==
    IF ~can_be_modified(c)
    THEN Outcome(c, None, Error("TypeError", "Challenge cannot be edited"), 0)
    ELSE LET c1 == [c EXCEPT !.code = new_code]
             c2 == IF increase_attempted_tries
                   THEN LET c3 == [c1 EXCEPT !.attempted_tries = @ + 1]
                        IN  IF increase_failures
                            THEN [c3 EXCEPT !.failures = @ + 1]
                            ELSE c3
                   ELSE c1
             cc == create_captcha(c2, n)
         IN  Outcome(cc.c, Some(cc.captcha.captcha_object), NoError, cc.calls)

\* reload that fails the challenge once failures reaches allowed_retries
reload_fails(c, n, new_code, increase_attempted_tries, increase_failures) ==
    IF ~can_be_modified(c)
    THEN Outcome(c, None, Error("TypeError", "Challenge cannot be edited"), 0)
    ELSE IF c.state = PENDING
    THEN Outcome(c, None, Error("TypeError", "Challenge is not running"), 0)
    ELSE LET c1 == [c EXCEPT !.code = new_code]
             c2 == IF increase_attempted_tries
                   THEN LET c3 == [c1 EXCEPT !.attempted_tries = @ + 1]
                        IN  IF increase_failures
                            THEN [c3 EXCEPT !.failures = @ + 1]
                            ELSE c3
                   ELSE c1
         IN  IF c2.failures >= c2.allowed_retries
             THEN LET c4 == set_state(c2, FAILED, TOO_MANY_RETRIES)
                  IN  Outcome(c4, None, Error("TooManyRetriesError", c4.fail_reason), 0)
             ELSE LET cc == create_captcha(c2, n)
                  IN  Outcome(cc.c, Some(cc.captcha.captcha_object), NoError, cc.calls)

\* reload that starts the count of failures again
reload_resets(c, n, new_code, increase_attempted_tries, increase_failures) ==
    IF ~can_be_modified(c)
    THEN Outcome(c, None, Error("TypeError", "Challenge cannot be edited"), 0)
    ELSE IF c.state = PENDING
    THEN Outcome(c, None, Error("TypeError", "Challenge is not running"), 0)
    ELSE LET c1 == [c EXCEPT !.code = new_code, !.failures = 0]
             c2 == IF increase_attempted_tries
                   THEN LET c3 == [c1 EXCEPT !.attempted_tries = @ + 1]
                        IN  IF increase_failures
                            THEN [c3 EXCEPT !.failures = @ + 1]
                            ELSE c3
                   ELSE c1
             cc == create_captcha(c2, n)
         IN  Outcome(cc.c, Some(cc.captcha.captcha_object), NoError, cc.calls)

\* reload that counts a failure whether or not it counts an attempt
reload_independent_flags(c, n, new_code, increase_attempted_tries, increase_failures) ==
    IF ~can_be_modified(c)
    THEN Outcome(c, None, Error("TypeError", "Challenge cannot be edited"), 0)
    ELSE IF c.state = PENDING
    THEN Outcome(c, None, Error("TypeError", "Challenge is not running"), 0)
    ELSE LET c1 == [c EXCEPT !.code = new_code]
             c2 == IF increase_attempted_tries
                   THEN [c1 EXCEPT !.attempted_tries = @ + 1]
                   ELSE c1
             c3 == IF increase_failures
                   THEN [c2 EXCEPT !.failures = @ + 1]
                   ELSE c2
             cc == create_captcha(c3, n)
         IN  Outcome(cc.c, Some(cc.captcha.captcha_object), NoError, cc.calls)

\* reload that reads the captcha before it draws the code
reload_fetch_first(c, n, new_code, increase_attempted_tries, increase_failures) ==
    IF ~can_be_modified(c)
    THEN Outcome(c, None, Error("TypeError", "Challenge cannot be edited"), 0)
    ELSE IF c.state = PENDING
    THEN Outcome(c, None, Error("TypeError", "Challenge is not running"), 0)
    ELSE LET cc == create_captcha(c, n)
             c1 == [cc.c EXCEPT !.code = new_code]
             c2 == IF increase_attempted_tries
                   THEN LET c3 == [c1 EXCEPT !.attempted_tries = @ + 1]
                        IN  IF increase_failures
                            THEN [c3 EXCEPT !.failures = @ + 1]
                            ELSE c3
                   ELSE c1
         IN  Outcome(c2, Some(cc.captcha.captcha_object), NoError, cc.calls)

\* Challenge.reload; new_code is the code random_code() returns
reload(c, n, new_code, increase_attempted_tries, increase_failures) ==
    IF ~can_be_modified(c)
    THEN Outcome(c, None, Error("TypeError", "Challenge cannot be edited"), 0)
    ELSE IF c.state = PENDING
    THEN Outcome(c, None, Error("TypeError", "Challenge is not running"), 0)
    ELSE LET c1 == [c EXCEPT !.code = new_code]
             c2 == IF increase_attempted_tries
                   THEN LET c3 == [c1 EXCEPT !.attempted_tries = @ + 1]
                        IN  IF increase_failures
                            THEN [c3 EXCEPT !.failures = @ + 1]
                            ELSE c3
                   ELSE c1
             cc == create_captcha(c2, n)
         IN  Outcome(cc.c, Some(cc.captcha.captcha_object), NoError, cc.calls)

\* Challenge.captcha, the property behind captcha_object
captcha(c, n) ==
    LET cc == create_captcha(c, n)
    IN  Outcome(cc.c, Some(cc.captcha), NoError, cc.calls)

\* cancel that records the reason of a failed challenge
cancel_too_many_retries(c) ==
    IF ~can_be_modified(c)
    THEN Outcome(c, None, Error("TypeError", "Challenge cannot be edited"), 0)
    ELSE Outcome(set_state(c, FAILURE, TOO_MANY_RETRIES), None, NoError, 0)

\* Challenge.cancel
cancel(c) ==
    IF ~can_be_modified(c)
    THEN Outcome(c, None, Error("TypeError", "Challenge cannot be edited"), 0)
    ELSE Outcome(set_state(c, FAILURE, CANCELLED), None, NoError, 0)

(***************************************************************************)
(* The methods when generator.generate raises: what was assigned before    *)
(* the property captcha_object is read stays assigned.                     *)
(***************************************************************************)
GeneratorError == Error("GeneratorError", "generate raised")

\* _create_captcha has to call the generator
needs_generate(c) == c.last_captcha_class = None \/ Some(c.code) # c.last_code

\* Challenge.begin with a generator that raises
begin_raising(c, n) ==
    IF c.state # PENDING
    THEN begin(c, n)
    ELSE LET c1 == set_state(c, WAITING, NoReason)
         IN  IF needs_generate(c1)
             THEN Outcome(c1, None, GeneratorError, 1)
             ELSE begin(c, n)

\* Challenge.check with a generator that raises
check_raising(c, n, answer, force_casing, remove_spaces) ==
    IF ~can_be_modified(c)
    THEN check(c, n, answer, force_casing, remove_spaces)
    ELSE LET c1 == [c EXCEPT !.attempted_tries = @ + 1]
         IN  IF needs_generate(c1)
             THEN Outcome(c1, None, GeneratorError, 1)
             ELSE check(c, n, answer, force_casing, remove_spaces)

\* Challenge.reload with a generator that raises
reload_raising(c, n, new_code, increase_attempted_tries, increase_failures) ==
    IF ~can_be_modified(c) \/ c.state = PENDING
    THEN reload(c, n, new_code, increase_attempted_tries, increase_failures)
    ELSE LET c1 == [c EXCEPT !.code = new_code]
             c2 == IF increase_attempted_tries
                   THEN LET c3 == [c1 EXCEPT !.attempted_tries = @ + 1]
                        IN  IF increase_failures
                            THEN [c3 EXCEPT !.failures = @ + 1]
                            ELSE c3
                   ELSE c1
         IN  IF needs_generate(c2)
             THEN Outcome(c2, None, GeneratorError, 1)
             ELSE reload(c, n, new_code, increase_attempted_tries, increase_failures)

(***************************************************************************)
(* CaptchaQueue.                                                           *)
(***************************************************************************)
Digits == <<"0", "1", "2", "3", "4", "5", "6", "7", "8", "9">>

\* str(n) of a non-negative int
RECURSIVE str(_)
str(n) == IF n < 10 THEN <<Digits[n + 1]>>
          ELSE str(n \div 10) \o <<Digits[(n % 10) + 1]>>

\* the registry of a new queue: queue or {}
EmptyQueue == [id \in {} |-> 0]

\* CaptchaQueue.__init__ without an imported queue
CaptchaQueueInit(generators) ==
    [generators |-> generators, queue |-> EmptyQueue, total_challenges |-> 0]

\* Challenge(generator, challenge_id, allowed_retries=..., code=...) as
\* create_challenge builds it, with the code already drawn
QueueChallenge(generator, challenge_id, allowed_retries, code) ==
    ChallengeInit(allowed_retries, code)
        @@ [generator |-> generator, challenge_id |-> challenge_id]

\* the outcome of a method of the queue: the queue and the challenges after
\* it, the value returned, the error raised, the generator invocations made
QueueOutcome(qs, hp, ret, err, calls) ==
    [q |-> qs, heap |-> hp, ret |-> ret, err |-> err, calls |-> calls]

\* the identifier taken from the size of the registry
ChallengeId_registry_size(qs, challenge_id) ==
    IF challenge_id = None \/ challenge_id = Some(<<>>)
    THEN str(Cardinality(DOMAIN qs.queue))
    ELSE challenge_id[1]

\* the identifier create_challenge uses: challenge_id or str(total)
ChallengeId(qs, challenge_id) ==
    IF challenge_id = None \/ challenge_id = Some(<<>>)
    THEN str(qs.total_challenges)
    ELSE challenge_id[1]

\* create_challenge that registers the challenge under the counter
create_challenge_counter_key(qs, hp, challenge_id, generator, retries, code) ==
    IF generator = None
    THEN QueueOutcome(qs, hp, None,
                      Error("IndexError", "Cannot choose from an empty sequence"), 0)
    ELSE LET id == ChallengeId(qs, challenge_id)
             challenge == QueueChallenge(generator[1], id, retries, code)
             ref == Len(hp) + 1
         IN  QueueOutcome([qs EXCEPT !.queue = (str(qs.total_challenges) :> ref) @@ @,
                                     !.total_challenges = @ + 1],
                          Append(hp, challenge), Some(ref), NoError, 0)

\* create_challenge that keeps the challenge already registered under the id
create_challenge_keeps_existing(qs, hp, challenge_id, generator, retries, code) ==
    IF generator = None
    THEN QueueOutcome(qs, hp, None,
                      Error("IndexError", "Cannot choose from an empty sequence"), 0)
    ELSE LET id == ChallengeId(qs, challenge_id)
             challenge == QueueChallenge(generator[1], id, retries, code)
             ref == Len(hp) + 1
         IN  QueueOutcome([qs EXCEPT !.queue = @ @@ (id :> ref),
                                     !.total_challenges = @ + 1],
                          Append(hp, challenge), Some(ref), NoError, 0)

\* create_challenge that cancels the challenge it supersedes
create_challenge_cancels_old(qs, hp, challenge_id, generator, retries, code) ==
    IF generator = None
    THEN QueueOutcome(qs, hp, None,
                      Error("IndexError", "Cannot choose from an empty sequence"), 0)
    ELSE LET id == ChallengeId(qs, challenge_id)
             challenge == QueueChallenge(generator[1], id, retries, code)
             ref == Len(hp) + 1
             kept == IF id \in DOMAIN qs.queue
                     THEN [hp EXCEPT ![qs.queue[id]] = cancel(@).c]
                     ELSE hp
         IN  QueueOutcome([qs EXCEPT !.queue = (id :> ref) @@ @,
                                     !.total_challenges = @ + 1],
                          Append(kept, challenge), Some(ref), NoError, 0)

\* CaptchaQueue.create_challenge; generator is the pick of random.choice,
\* None when there is no generator to pick
create_challenge(qs, hp, challenge_id, generator, retries, code) ==
    IF generator = None
    THEN QueueOutcome(qs, hp, None,
                      Error("IndexError", "Cannot choose from an empty sequence"), 0)
    ELSE LET id == ChallengeId(qs, challenge_id)
             challenge == QueueChallenge(generator[1], id, retries, code)
             ref == Len(hp) + 1
         IN  QueueOutcome([qs EXCEPT !.queue = (id :> ref) @@ @,
                                     !.total_challenges = @ + 1],
                          Append(hp, challenge), Some(ref), NoError, 0)

\* CaptchaQueue.get_challenge
get_challenge(qs, hp, challenge_id) ==
    IF challenge_id \in DOMAIN qs.queue
    THEN QueueOutcome(qs, hp, Some(qs.queue[challenge_id]), NoError, 0)
    ELSE QueueOutcome(qs, hp, None,
                      Error("NonexistingChallengeError", "does not exist"), 0)

\* delete_challenge of the earlier revision, which does not cancel
delete_challenge_no_cancel(qs, hp, challenge_id) ==
    LET got == get_challenge(qs, hp, challenge_id)
    IN  IF got.err # NoError
        THEN got
        ELSE QueueOutcome(
                 [qs EXCEPT !.queue =
                      [id \in DOMAIN qs.queue \ {challenge_id} |-> qs.queue[id]]],
                 hp, None, NoError, 0)

\* delete_challenge that empties the registry
delete_challenge_clears(qs, hp, challenge_id) ==
    LET got == get_challenge(qs, hp, challenge_id)
    IN  IF got.err # NoError
        THEN got
        ELSE LET ref == got.ret[1]
                 cancelled == cancel(hp[ref])
             IN  IF cancelled.err # NoError
                 THEN QueueOutcome(qs, [hp EXCEPT ![ref] = cancelled.c], None,
                                   cancelled.err, 0)
                 ELSE QueueOutcome([qs EXCEPT !.queue = EmptyQueue],
                                   [hp EXCEPT ![ref] = cancelled.c], None, NoError, 0)

\* CaptchaQueue.delete_challenge
delete_challenge(qs, hp, challenge_id) ==
    LET got == get_challenge(qs, hp, challenge_id)
    IN  IF got.err # NoError
        THEN got
        ELSE LET ref == got.ret[1]
                 cancelled == cancel(hp[ref])
             IN  IF cancelled.err # NoError
                 THEN QueueOutcome(qs, [hp EXCEPT ![ref] = cancelled.c], None,
                                   cancelled.err, 0)
                 ELSE QueueOutcome(
                          [qs EXCEPT !.queue =
                               [id \in DOMAIN qs.queue \ {challenge_id} |-> qs.queue[id]]],
                          [hp EXCEPT ![ref] = cancelled.c], None, NoError, 0)

\* a method of the challenge behind the reference ref
OnChallenge(qs, hp, ref, out) ==
    QueueOutcome(qs, [hp EXCEPT ![ref] = out.c], out.ret, out.err, out.calls)

(***************************************************************************)
(* The caller of one challenge.                                            *)
(***************************************************************************)
\* the arguments of Challenge(...)
CodeArgs == {None} \cup {Some(s) : s \in SeqsUpTo(Chars, MaxCodeLen)}
RetriesArgs == {None} \cup {Some(r) : r \in -1..MaxRetries}
CodeLengthArgs == {None, Some(-1), Some(0), Some(1)}

\* the code Challenge.__init__ keeps: code or random_code(code_length)
InitialCodes(code, code_length) ==
    IF code = None \/ code = Some(<<>>) THEN random_code(code_length) ELSE {code[1]}

\* the text with one space put after its first k characters
InsertSpace(s, k) == SubSeq(s, 1, k) \o <<" ">> \o SubSeq(s, k + 1, Len(s))

\* the answers a user gives to a challenge holding the code s
Answers(s) ==
    {s, Lower(s), RemoveSpaces(s), InsertSpace(s, Len(s) \div 2), <<"a", "a", "a">>}

\* no call made yet; generated lists the codes the generator was invoked
\* with, in order, for the caller who keeps track of them
NoHistory == [ops |-> 0, reloads |-> 0, wrong_checks |-> 0, generator_errors |-> 0,
              generated |-> <<>>]

NoCall == [op |-> "none", pre |-> <<>>, args |-> <<>>, ret |-> None, err |-> NoError,
           calls |-> 0]

Call(op, args, out) ==
    [op |-> op, pre |-> Some(ch), args |-> args, ret |-> out.ret, err |-> out.err,
     calls |-> out.calls]

History(op, args, out) ==
    [ops |-> hist.ops + 1,
     reloads |-> hist.reloads
         + (IF op = "reload" /\ args.drawn # None THEN 1 ELSE 0),
     wrong_checks |-> hist.wrong_checks
         + (IF op = "check" /\ (out.ret = Some(FALSE)
                                \/ out.err.type = "TooManyRetriesError")
            THEN 1 ELSE 0),
     generator_errors |-> hist.generator_errors
         + (IF out.err.type = "GeneratorError" THEN 1 ELSE 0),
     generated |-> hist.generated]

ApplyWith(op, args, out, history) ==
    /\ hist.ops < MaxOps
    /\ ch' = out.c
    /\ gen_calls' = gen_calls + out.calls
    /\ last' = Call(op, args, out)
    /\ hist' = history
    /\ UNCHANGED <<cap, cap_last, q, heap, qlast, qhist, threads, tgen>>

Apply(op, args, out) == ApplyWith(op, args, out, History(op, args, out))

\* no Captcha.check call made yet
NoCheck == [text |-> <<>>, force_casing |-> FALSE, remove_spaces |-> FALSE,
            ret |-> None, pre |-> None]

\* the values the variables of the other specification keep
IdleChallenge == ChallengeInit(None, <<>>)
IdleCaptcha == Captcha(<<>>, generate(<<>>, 0), 0)

NoQueueCall == [op |-> "none", pre |-> None, args |-> <<>>, ret |-> None,
                err |-> NoError]

\* what the caller has seen: the calls made, the reloads that drew a code,
\* the create_challenge calls made, the reference the latest
\* create_challenge returned for each identifier not deleted since, and the
\* references whose entry a delete_challenge removed
NoQueueHistory ==
    [ops |-> 0, reloads |-> 0, creates |-> 0, latest |-> EmptyQueue, deleted |-> {}]

\* a thread that has not called create_challenge yet
NoThreadCall ==
    [pc |-> "idle", challenge_id |-> None, id |-> <<>>, ref |-> 0, total |-> 0,
     err |-> NoError]

NoThreads == [t \in 1..MaxThreads |-> NoThreadCall]

\* the values the variables of the queue keep in the other specifications
IdleQueue ==
    /\ q = CaptchaQueueInit(<<>>)
    /\ heap = <<>>
    /\ qlast = NoQueueCall
    /\ qhist = NoQueueHistory
    /\ threads = NoThreads

Init ==
    /\ \E code \in CodeArgs, allowed_retries \in RetriesArgs,
          code_length \in CodeLengthArgs :
          \E drawn \in InitialCodes(code, code_length) :
              ch = ChallengeInit(allowed_retries, drawn)
    /\ gen_calls = 0
    /\ last = NoCall
    /\ hist = NoHistory
    /\ cap = IdleCaptcha
    /\ cap_last = NoCheck
    /\ tgen = NoGenerate
    /\ IdleQueue

Begin == Apply("begin", <<>>, begin(ch, gen_calls))

Check ==
    \E answer \in Answers(ch.code), force_casing \in BOOLEAN, remove_spaces \in BOOLEAN :
        Apply("check", [answer |-> answer, force_casing |-> force_casing,
                        remove_spaces |-> remove_spaces],
              check(ch, gen_calls, answer, force_casing, remove_spaces))

\* the draws of random_code() in reload: a call that raises draws nothing
ReloadDraws(c) ==
    IF can_be_modified(c) /\ c.state # PENDING
    THEN {Some(code) : code \in random_code(None)}
    ELSE {None}

Reload ==
    /\ hist.reloads < MaxReloads
    /\ \E drawn \in ReloadDraws(ch),
          increase_attempted_tries \in BOOLEAN, increase_failures \in BOOLEAN :
           Apply("reload", [drawn |-> drawn,
                            increase_attempted_tries |-> increase_attempted_tries,
                            increase_failures |-> increase_failures],
                 reload(ch, gen_calls, IF drawn = None THEN <<>> ELSE drawn[1],
                        increase_attempted_tries, increase_failures))

Cancel == Apply("cancel", <<>>, cancel(ch))

Next == Begin \/ Check \/ Reload \/ Cancel

Spec == Init /\ [][Next]_vars

(***************************************************************************)
(* The caller of one challenge whose generator may raise, as                *)
(* ImageGenerator does on a font it cannot load.                           *)
(***************************************************************************)
BeginRaising ==
    /\ hist.generator_errors < MaxGeneratorErrors
    /\ begin_raising(ch, gen_calls).err = GeneratorError
    /\ Apply("begin", <<>>, begin_raising(ch, gen_calls))

CheckRaising ==
    \E answer \in Answers(ch.code), force_casing \in BOOLEAN, remove_spaces \in BOOLEAN :
        /\ hist.generator_errors < MaxGeneratorErrors
        /\ check_raising(ch, gen_calls, answer, force_casing, remove_spaces).err
               = GeneratorError
        /\ Apply("check", [answer |-> answer, force_casing |-> force_casing,
                           remove_spaces |-> remove_spaces],
                 check_raising(ch, gen_calls, answer, force_casing, remove_spaces))

ReloadRaising ==
    /\ hist.reloads < MaxReloads
    /\ hist.generator_errors < MaxGeneratorErrors
    /\ \E drawn \in ReloadDraws(ch),
          increase_attempted_tries \in BOOLEAN, increase_failures \in BOOLEAN :
           LET out == reload_raising(ch, gen_calls,
                                     IF drawn = None THEN <<>> ELSE drawn[1],
                                     increase_attempted_tries, increase_failures)
           IN  /\ out.err = GeneratorError
               /\ Apply("reload", [drawn |-> drawn,
                                   increase_attempted_tries |-> increase_attempted_tries,
                                   increase_failures |-> increase_failures], out)

\* a challenge created with an explicit code
InitFaulty ==
    /\ \E code \in SeqsUpTo(Chars, MaxCodeLen) \ {<<>>}, allowed_retries \in RetriesArgs :
          ch = ChallengeInit(allowed_retries, code)
    /\ gen_calls = 0
    /\ last = NoCall
    /\ hist = NoHistory
    /\ cap = IdleCaptcha
    /\ cap_last = NoCheck
    /\ tgen = NoGenerate
    /\ IdleQueue

NextFaulty == Next \/ BeginRaising \/ CheckRaising \/ ReloadRaising

SpecFaulty == InitFaulty /\ [][NextFaulty]_vars

(***************************************************************************)
(* The caller of one challenge who reads its captcha and keeps track of    *)
(* the codes the generator is invoked with.                                *)
(***************************************************************************)
\* the code and the retries the challenge is created with
CacheCodeArgs == {None, Some(<<"A">>)}
CacheRetriesArgs == {None, Some(1)}

\* the answers given to the challenge holding the code s
CacheAnswers(s) == {s, <<"a", "a", "a">>}

CacheApply(op, args, out) ==
    ApplyWith(op, args, out,
              [History(op, args, out) EXCEPT
                  !.generated = IF out.calls > 0 THEN Append(@, out.c.code) ELSE @])

InitCache ==
    /\ \E code \in CacheCodeArgs, allowed_retries \in CacheRetriesArgs :
          \E drawn \in InitialCodes(code, None) :
              ch = ChallengeInit(allowed_retries, drawn)
    /\ gen_calls = 0
    /\ last = NoCall
    /\ hist = NoHistory
    /\ cap = IdleCaptcha
    /\ cap_last = NoCheck
    /\ tgen = NoGenerate
    /\ IdleQueue

CacheBegin == CacheApply("begin", <<>>, begin(ch, gen_calls))

CacheCheck ==
    \E answer \in CacheAnswers(ch.code) :
        CacheApply("check", [answer |-> answer, force_casing |-> FALSE,
                             remove_spaces |-> TRUE],
                   check(ch, gen_calls, answer, FALSE, TRUE))

CacheReload ==
    /\ hist.reloads < MaxReloads
    /\ \E drawn \in ReloadDraws(ch) :
           CacheApply("reload", [drawn |-> drawn, increase_attempted_tries |-> TRUE,
                                 increase_failures |-> FALSE],
                      reload(ch, gen_calls, IF drawn = None THEN <<>> ELSE drawn[1],
                             TRUE, FALSE))

\* challenge.captcha or challenge.captcha_object read by the caller
FetchCaptcha == CacheApply("captcha", <<>>, captcha(ch, gen_calls))

NextCache == CacheBegin \/ CacheCheck \/ CacheReload \/ FetchCaptcha

SpecCache == InitCache /\ [][NextCache]_vars

(***************************************************************************)
(* The caller who creates a challenge with any arguments and then uses it. *)
(* The arguments given to Challenge(...) are kept in last.                 *)
(***************************************************************************)
\* Challenge(generator, allowed_retries=..., code=..., code_length=...)
NewChallenge ==
    /\ last.op = "none"
    /\ \E code \in CodeArgs, allowed_retries \in RetriesArgs,
          code_length \in CodeLengthArgs :
          \E drawn \in InitialCodes(code, code_length) :
              /\ ch' = ChallengeInit(allowed_retries, drawn)
              /\ last' = [op |-> "__init__", pre |-> None,
                          args |-> [code |-> code, allowed_retries |-> allowed_retries,
                                    code_length |-> code_length],
                          ret |-> None, err |-> NoError, calls |-> 0]
    /\ UNCHANGED <<gen_calls, hist, cap, cap_last, q, heap, qlast, qhist, threads, tgen>>

NewBegin ==
    /\ last.op # "none"
    /\ Apply("begin", <<>>, begin(ch, gen_calls))

NewCheck ==
    /\ last.op # "none"
    /\ \E answer \in CacheAnswers(ch.code) :
           Apply("check", [answer |-> answer, force_casing |-> FALSE,
                           remove_spaces |-> TRUE],
                 check(ch, gen_calls, answer, FALSE, TRUE))

NewReload ==
    /\ last.op # "none"
    /\ hist.reloads < MaxReloads
    /\ \E drawn \in ReloadDraws(ch) :
           Apply("reload", [drawn |-> drawn, increase_attempted_tries |-> TRUE,
                            increase_failures |-> FALSE],
                 reload(ch, gen_calls, IF drawn = None THEN <<>> ELSE drawn[1],
                        TRUE, FALSE))

NewCancel ==
    /\ last.op # "none"
    /\ Apply("cancel", <<>>, cancel(ch))

\* no challenge created yet
InitCreate ==
    /\ ch = IdleChallenge
    /\ gen_calls = 0
    /\ last = NoCall
    /\ hist = NoHistory
    /\ cap = IdleCaptcha
    /\ cap_last = NoCheck
    /\ tgen = NoGenerate
    /\ IdleQueue

NextCreate == NewChallenge \/ NewBegin \/ NewCheck \/ NewReload \/ NewCancel

SpecCreate == InitCreate /\ [][NextCreate]_vars

(***************************************************************************)
(* The caller of one Captcha built directly, as in the documentation       *)
(* sample: captcha = Captcha(code, generator.generate(code)).              *)
(***************************************************************************)
InitCaptcha ==
    /\ \E code \in SeqsUpTo(Chars, MaxCaptchaCodeLen) :
          cap = Captcha(code, generate(code, 1), 1)
    /\ cap_last = NoCheck
    /\ tgen = NoGenerate
    /\ IdleQueue
    /\ ch = IdleChallenge
    /\ gen_calls = 1
    /\ last = NoCall
    /\ hist = NoHistory

\* captcha.check(text, force_casing=..., remove_spaces=...)
CheckCaptcha ==
    /\ \E text \in SeqsUpTo(Chars, MaxTextLen),
          force_casing \in BOOLEAN, remove_spaces \in BOOLEAN :
          LET out == CaptchaCheckCall(cap, text, force_casing, remove_spaces)
          IN  /\ cap_last' = [text |-> text, force_casing |-> force_casing,
                              remove_spaces |-> remove_spaces,
                              ret |-> Some(out.ret),
                              pre |-> Some(cap)]
              /\ cap' = out.captcha
    /\ UNCHANGED <<ch, gen_calls, last, hist, q, heap, qlast, qhist, threads, tgen>>

NextCaptcha == CheckCaptcha

SpecCaptcha == InitCaptcha /\ [][NextCaptcha]_vars

(***************************************************************************)
(* The caller of one queue, who keeps the challenges create_challenge      *)
(* returned.                                                               *)
(***************************************************************************)
\* the generators a queue is built with
GeneratorLists ==
    {<<>>, <<"TextGenerator">>, <<"TextGenerator", "WheezyGenerator">>}

\* the picks of random.choice(self.generators)
GeneratorPicks(qs) ==
    IF qs.generators = <<>> THEN {None}
    ELSE {Some(qs.generators[i]) : i \in 1..Len(qs.generators)}

\* the arguments of create_challenge
ChallengeIdArgs == {None, Some(<<"1">>)}
QueueRetriesArgs == {None, Some(1)}
QueueCodeArgs == {None, Some(<<"A">>)}
QueueCodeLength == Some(1)

\* the identifiers given to get_challenge and delete_challenge
QueryIds == {str(n) : n \in 0..(MaxQueueOps - 1)}

\* the answers given to a challenge of the queue holding the code s
QueueAnswers(s) == {s, <<"a", "a", "a">>}

QueueApply(op, args, out, history) ==
    /\ qhist.ops < MaxQueueOps
    /\ q' = out.q
    /\ heap' = out.heap
    /\ gen_calls' = gen_calls + out.calls
    /\ qlast' = [op |-> op, pre |-> Some([q |-> q, heap |-> heap]), args |-> args,
                 ret |-> out.ret, err |-> out.err]
    /\ qhist' = [history EXCEPT !.ops = @ + 1]
    /\ UNCHANGED <<ch, last, hist, cap, cap_last, threads, tgen>>

InitQueue ==
    /\ \E generators \in GeneratorLists : q = CaptchaQueueInit(generators)
    /\ heap = <<>>
    /\ qlast = NoQueueCall
    /\ qhist = NoQueueHistory
    /\ threads = NoThreads
    /\ gen_calls = 0
    /\ ch = IdleChallenge
    /\ last = NoCall
    /\ hist = NoHistory
    /\ cap = IdleCaptcha
    /\ cap_last = NoCheck
    /\ tgen = NoGenerate

CreateChallenge ==
    \E challenge_id \in ChallengeIdArgs, retries \in QueueRetriesArgs,
       code \in QueueCodeArgs, generator \in GeneratorPicks(q) :
        \E drawn \in InitialCodes(code, QueueCodeLength) :
            LET out == create_challenge(q, heap, challenge_id, generator, retries, drawn)
            IN  QueueApply("create_challenge",
                           [challenge_id |-> challenge_id, retries |-> retries,
                            code |-> code],
                           out,
                           IF out.err # NoError
                           THEN [qhist EXCEPT !.creates = @ + 1]
                           ELSE [qhist EXCEPT
                                   !.creates = @ + 1,
                                   !.latest = (out.heap[out.ret[1]].challenge_id
                                                 :> out.ret[1]) @@ @])

GetChallenge ==
    \E challenge_id \in QueryIds :
        QueueApply("get_challenge", [challenge_id |-> challenge_id],
                   get_challenge(q, heap, challenge_id), qhist)

DeleteChallenge ==
    \E challenge_id \in QueryIds :
        LET out == delete_challenge(q, heap, challenge_id)
        IN  QueueApply("delete_challenge", [challenge_id |-> challenge_id], out,
                       IF out.err # NoError THEN qhist
                       ELSE [qhist EXCEPT
                               !.latest = [id \in DOMAIN @ \ {challenge_id} |-> @[id]],
                               !.deleted = @ \cup {q.queue[challenge_id]}])

ChallengeBegin ==
    \E ref \in 1..Len(heap) :
        QueueApply("begin", [ref |-> ref],
                   OnChallenge(q, heap, ref, begin(heap[ref], gen_calls)), qhist)

ChallengeCheck ==
    \E ref \in 1..Len(heap) :
        \E answer \in QueueAnswers(heap[ref].code) :
            QueueApply("check", [ref |-> ref, answer |-> answer],
                       OnChallenge(q, heap, ref,
                                   check(heap[ref], gen_calls, answer, FALSE, TRUE)),
                       qhist)

ChallengeReload ==
    /\ qhist.reloads < MaxReloads
    /\ \E ref \in 1..Len(heap) :
           \E drawn \in ReloadDraws(heap[ref]) :
               QueueApply("reload", [ref |-> ref, drawn |-> drawn],
                          OnChallenge(q, heap, ref,
                                      reload(heap[ref], gen_calls,
                                             IF drawn = None THEN <<>> ELSE drawn[1],
                                             TRUE, FALSE)),
                          IF drawn = None THEN qhist
                          ELSE [qhist EXCEPT !.reloads = @ + 1])

ChallengeCancel ==
    \E ref \in 1..Len(heap) :
        QueueApply("cancel", [ref |-> ref],
                   OnChallenge(q, heap, ref, cancel(heap[ref])), qhist)

NextQueue ==
    \/ CreateChallenge
    \/ GetChallenge
    \/ DeleteChallenge
    \/ ChallengeBegin
    \/ ChallengeCheck
    \/ ChallengeReload
    \/ ChallengeCancel

SpecQueue == InitQueue /\ [][NextQueue]_vars

(***************************************************************************)
(* Several threads calling create_challenge on one queue.  The method      *)
(* takes no lock: a thread may be preempted between the read of the        *)
(* counter (line 100), the construction of the challenge (102-109), the    *)
(* insert in the registry (110) and the load and the store of the          *)
(* increment (112).                                                        *)
(***************************************************************************)
\* the code given to the challenges the threads create
ThreadCode == <<"A">>

\* line 100: challenge_id = challenge_id or str(self.__total_challenges)
ThreadReadCounter(t) ==
    /\ threads[t].pc = "idle"
    /\ \E challenge_id \in ChallengeIdArgs :
           threads' = [threads EXCEPT ![t] =
                           [@ EXCEPT !.pc = "line102",
                                     !.challenge_id = challenge_id,
                                     !.id = ChallengeId(q, challenge_id)]]
    /\ UNCHANGED <<q, heap>>

\* lines 102-109: random.choice(self.generators) and Challenge(...)
ThreadBuildChallenge(t) ==
    /\ threads[t].pc = "line102"
    /\ \E generator \in GeneratorPicks(q) :
           IF generator = None
           THEN /\ threads' = [threads EXCEPT ![t] =
                                  [@ EXCEPT !.pc = "done",
                                            !.err = Error("IndexError",
                                                "Cannot choose from an empty sequence")]]
                /\ heap' = heap
           ELSE /\ heap' = Append(heap, QueueChallenge(generator[1], threads[t].id,
                                                       None, ThreadCode))
                /\ threads' = [threads EXCEPT ![t] =
                                  [@ EXCEPT !.pc = "line110", !.ref = Len(heap) + 1]]
    /\ UNCHANGED q

\* line 110: self.queue[str(challenge_id)] = challenge
ThreadInsert(t) ==
    /\ threads[t].pc = "line110"
    /\ q' = [q EXCEPT !.queue = (threads[t].id :> threads[t].ref) @@ @]
    /\ threads' = [threads EXCEPT ![t] = [@ EXCEPT !.pc = "line112"]]
    /\ UNCHANGED heap

\* line 112, self.__total_challenges += 1: the load of the attribute
ThreadLoadCounter(t) ==
    /\ threads[t].pc = "line112"
    /\ threads' = [threads EXCEPT ![t] =
                       [@ EXCEPT !.pc = "line112_store", !.total = q.total_challenges]]
    /\ UNCHANGED <<q, heap>>

\* line 112, self.__total_challenges += 1: the store of the sum; line 113
ThreadStoreCounter(t) ==
    /\ threads[t].pc = "line112_store"
    /\ q' = [q EXCEPT !.total_challenges = threads[t].total + 1]
    /\ threads' = [threads EXCEPT ![t] = [@ EXCEPT !.pc = "done"]]
    /\ UNCHANGED heap

InitThreads ==
    /\ \E generators \in GeneratorLists : q = CaptchaQueueInit(generators)
    /\ heap = <<>>
    /\ qlast = NoQueueCall
    /\ qhist = NoQueueHistory
    /\ threads = NoThreads
    /\ gen_calls = 0
    /\ ch = IdleChallenge
    /\ last = NoCall
    /\ hist = NoHistory
    /\ cap = IdleCaptcha
    /\ cap_last = NoCheck
    /\ tgen = NoGenerate

NextThreads ==
    /\ \E t \in 1..MaxThreads :
           \/ ThreadReadCounter(t)
           \/ ThreadBuildChallenge(t)
           \/ ThreadInsert(t)
           \/ ThreadLoadCounter(t)
           \/ ThreadStoreCounter(t)
    /\ UNCHANGED <<ch, gen_calls, last, hist, cap, cap_last, qlast, qhist, tgen>>

SpecThreads == InitThreads /\ [][NextThreads]_vars

(***************************************************************************)
(* The caller of TextGenerator.generate.                                   *)
(***************************************************************************)
\* the characters of the texts, one of which is also a separator
GenChars == {"A", "B", "+"}

\* the separators a TextGenerator is built with
SeparatorArgs ==
    {[kind |-> "str", value |-> v] : v \in {<<>>, <<"+">>, <<"-">>}}
        \cup {[kind |-> "list", value |-> v] :
                  v \in {<<>>, << <<"+">> >>, << <<"+">>, <<"-">> >>}}

\* the results of choice(self.separator), one for each character of text
ChoicePicks(separator, text) ==
    IF separator.kind = "str" \/ separator.value = <<>> THEN {<<>>}
    ELSE [1..Len(text) -> {separator.value[i] : i \in 1..Len(separator.value)}]

GenerateText ==
    /\ \E separator \in SeparatorArgs, text \in SeqsUpTo(GenChars, MaxGenTextLen) :
           \E picks \in ChoicePicks(separator, text) :
               LET out == TextGenerator_generate(separator, text, picks)
               IN  tgen' = [called |-> TRUE, separator |-> separator, text |-> text,
                            picks |-> picks, ret |-> out.ret, err |-> out.err]
    /\ UNCHANGED <<ch, gen_calls, last, hist, cap, cap_last, q, heap, qlast, qhist,
                   threads>>

InitText ==
    /\ tgen = NoGenerate
    /\ ch = IdleChallenge
    /\ gen_calls = 0
    /\ last = NoCall
    /\ hist = NoHistory
    /\ cap = IdleCaptcha
    /\ cap_last = NoCheck
    /\ IdleQueue

NextText == GenerateText

SpecText == InitText /\ [][NextText]_vars

(***************************************************************************)
(* Properties.  last is the last call made on the challenge: Pre is the    *)
(* challenge as it was before the call, ch the challenge after it.         *)
(***************************************************************************)
Pre == last.pre[1]

Called(op) == last.op = op

Terminal == {COMPLETED, FAILED, FAILURE}

\* the answer of the last check call matches the code the challenge held,
\* under the flags of the call
AnswerMatches ==
    CaptchaCheck([code |-> Pre.code], last.args.answer, last.args.force_casing,
                 last.args.remove_spaces)

\* the counters, the code and the fail reason are as before the call
SameCounters ==
    /\ ch.failures = Pre.failures
    /\ ch.attempted_tries = Pre.attempted_tries
    /\ ch.code = Pre.code
    /\ ch.fail_reason = Pre.fail_reason

\* C1: begin on a PENDING challenge moves it to WAITING and returns the
\* artifact the generator produced for the current code; failures,
\* attempted_tries, code and fail_reason are unchanged.
C1_BeginFromPending ==
    (Called("begin") /\ Pre.state = PENDING) =>
        /\ ch.state = WAITING
        /\ last.err = NoError
        /\ last.ret # None
        /\ last.ret[1].text = ch.code
        /\ last.ret[1].serial \in 1..gen_calls
        /\ last.ret[1] = ch.last_captcha_class[1].captcha_object
        /\ SameCounters

\* begin on a PENDING challenge that has already taken a wrong answer
C1_Witness ==
    /\ Called("begin")
    /\ Pre.state = PENDING
    /\ Pre.failures > 0
    /\ ch.state = WAITING

\* C2: a wrong check on a PENDING or WAITING challenge adds 1 to
\* attempted_tries and to failures; below allowed_retries it returns False and
\* keeps the state, otherwise the state is FAILED with TOO_MANY_RETRIES and
\* TooManyRetriesError is raised.  With allowed_retries = N >= 1 and no
\* reload, failures counts the wrong checks, the state is not FAILED before
\* the Nth wrong check and is FAILED with failures = N after it.
C2_WrongCheck ==
    /\ (Called("check") /\ Pre.state \in {PENDING, WAITING} /\ ~AnswerMatches) =>
           /\ ch.attempted_tries = Pre.attempted_tries + 1
           /\ ch.failures = Pre.failures + 1
           /\ ch.code = Pre.code
           /\ IF ch.failures < ch.allowed_retries
              THEN /\ last.ret = Some(FALSE)
                   /\ last.err = NoError
                   /\ ch.state = Pre.state
                   /\ ch.fail_reason = Pre.fail_reason
              ELSE /\ ch.state = FAILED
                   /\ ch.fail_reason = TOO_MANY_RETRIES
                   /\ last.ret = None
                   /\ last.err = Error("TooManyRetriesError", TOO_MANY_RETRIES)
    /\ (hist.reloads = 0 /\ ch.allowed_retries >= 1) =>
           /\ ch.failures = hist.wrong_checks
           /\ hist.wrong_checks <= ch.allowed_retries
           /\ (hist.wrong_checks < ch.allowed_retries => ch.state # FAILED)
           /\ (hist.wrong_checks = ch.allowed_retries => ch.state = FAILED)

\* the third wrong check of a challenge with the default three retries
C2_Witness ==
    /\ Called("check")
    /\ ~AnswerMatches
    /\ hist.reloads = 0
    /\ ch.allowed_retries = DefaultRetries
    /\ Pre.failures = DefaultRetries - 1
    /\ ch.failures = DefaultRetries
    /\ ch.state = FAILED
    /\ last.err.type = "TooManyRetriesError"

\* C3: a check whose answer matches, on a PENDING or WAITING challenge,
\* returns True, moves to COMPLETED, adds exactly 1 to attempted_tries and
\* leaves failures unchanged, whatever the number of earlier wrong answers.
C3_CorrectCheck ==
    (Called("check") /\ Pre.state \in {PENDING, WAITING} /\ AnswerMatches) =>
        /\ last.ret = Some(TRUE)
        /\ last.err = NoError
        /\ ch.state = COMPLETED
        /\ ch.attempted_tries = Pre.attempted_tries + 1
        /\ ch.failures = Pre.failures
        /\ ch.code = Pre.code
        /\ ch.fail_reason = Pre.fail_reason

\* a matching answer after allowed_retries - 1 wrong ones
C3_Witness ==
    /\ Called("check")
    /\ AnswerMatches
    /\ Pre.state = WAITING
    /\ Pre.failures = Pre.allowed_retries - 1
    /\ Pre.failures > 0
    /\ ch.state = COMPLETED

\* C4: a challenge created with a code, begun, and then given that very code
\* with the default flags (force_casing=False, remove_spaces=True) returns
\* True and is COMPLETED.
C4_RoundTrip ==
    (/\ Called("check")
     /\ hist.ops = 2
     /\ Pre.state = WAITING
     /\ Pre.attempted_tries = 0
     /\ last.args = [answer |-> Pre.code, force_casing |-> FALSE,
                     remove_spaces |-> TRUE]) =>
        /\ last.ret = Some(TRUE)
        /\ ch.state = COMPLETED

\* the transformations of Captcha.check, applied to one side
Normalized(s, force_casing, remove_spaces) ==
    LET t == IF remove_spaces THEN RemoveSpaces(s) ELSE s
    IN  IF force_casing THEN t ELSE Lower(t)

\* s is t with spaces inserted, and at least one
OnlySpacesInserted(s, t) ==
    \E k \in 0..Len(t) : s = InsertSpace(t, k)

\* C5: Captcha.check returns True iff candidate and code are identical after
\* space removal (when remove_spaces) and case folding (when not
\* force_casing); a candidate differing from the code only in case is accepted
\* exactly when force_casing is False, one differing only by an inserted space
\* exactly when remove_spaces is True.
C5_CheckIsNormalizedEquality ==
    cap_last.ret # None =>
        /\ cap_last.ret[1] <=>
               (Normalized(cap_last.text, cap_last.force_casing, cap_last.remove_spaces)
                = Normalized(cap.code, cap_last.force_casing, cap_last.remove_spaces))
        /\ (cap_last.text # cap.code /\ Lower(cap_last.text) = Lower(cap.code)) =>
               (cap_last.ret[1] <=> ~cap_last.force_casing)
        /\ OnlySpacesInserted(cap_last.text, cap.code) =>
               (cap_last.ret[1] <=> cap_last.remove_spaces)

\* C6: begin in a state other than PENDING raises the error of that state
\* (FAILED and FAILURE carry the stored fail reason) and changes nothing.
C6_BeginRejected ==
    (Called("begin") /\ Pre.state # PENDING) =>
        /\ ch = Pre
        /\ last.calls = 0
        /\ last.ret = None
        /\ Pre.state = WAITING =>
               last.err.type = "AlreadyRunningError"
        /\ Pre.state = COMPLETED =>
               last.err.type = "AlreadyCompletedError"
        /\ Pre.state = FAILED =>
               last.err = Error("TooManyRetriesError", Pre.fail_reason)
        /\ Pre.state = FAILURE =>
               last.err = Error("ChallengeCompletionError", Pre.fail_reason)
        /\ Pre.state \in {FAILED, FAILURE} => Pre.fail_reason # NoReason

\* begin on a challenge that failed by too many retries
C6_Witness ==
    /\ Called("begin")
    /\ Pre.state = FAILED
    /\ last.err = Error("TooManyRetriesError", TOO_MANY_RETRIES)

\* C7: in COMPLETED, FAILED and FAILURE (cancelled), check, reload and cancel
\* raise TypeError and change nothing; no call leaves a terminal state.
C7_TerminalAbsorbing ==
    /\ (last.op \in {"check", "reload", "cancel"} /\ Pre.state \in Terminal) =>
           /\ last.err = Error("TypeError", "Challenge cannot be edited")
           /\ last.ret = None
           /\ last.calls = 0
           /\ ch = Pre
    /\ (last.op # "none" /\ Pre.state \in Terminal) => ch.state = Pre.state

\* a check on a cancelled challenge
C7_Witness ==
    /\ Called("check")
    /\ Pre.state = FAILURE
    /\ last.err.type = "TypeError"

\* C8: reload on a PENDING challenge raises TypeError "Challenge is not
\* running" and changes nothing, the cached captcha included.
C8_ReloadPending ==
    (Called("reload") /\ Pre.state = PENDING) =>
        /\ last.err = Error("TypeError", "Challenge is not running")
        /\ last.ret = None
        /\ last.calls = 0
        /\ ch = Pre

\* reload on a never begun challenge whose captcha a check has cached
C8_Witness ==
    /\ Called("reload")
    /\ Pre.state = PENDING
    /\ Pre.last_captcha_class # None
    /\ last.err.type = "TypeError"

\* C9: reload on a WAITING challenge keeps WAITING, assigns the drawn code,
\* returns the artifact generated for that code, and adds 1 to attempted_tries
\* exactly when increase_attempted_tries is True.
C9_ReloadWaiting ==
    (Called("reload") /\ Pre.state = WAITING) =>
        /\ last.err = NoError
        /\ ch.state = WAITING
        /\ Some(ch.code) = last.args.drawn
        /\ ch.code \in random_code(None)
        /\ last.ret # None
        /\ last.ret[1].text = ch.code
        /\ last.ret[1].serial \in 1..gen_calls
        /\ ch.attempted_tries = Pre.attempted_tries
               + (IF last.args.increase_attempted_tries THEN 1 ELSE 0)
        /\ ch.fail_reason = Pre.fail_reason

\* a reload that draws another code and does not count as an attempt
C9_Witness ==
    /\ Called("reload")
    /\ Pre.state = WAITING
    /\ ch.code # Pre.code
    /\ ~last.args.increase_attempted_tries
    /\ ch.attempted_tries = Pre.attempted_tries
    /\ last.ret[1].text = ch.code

\* C10: reload on a WAITING challenge with increase_failures=True adds 1 to
\* failures for either value of increase_attempted_tries; with
\* increase_failures=False failures is unchanged.
C10_ReloadFailures ==
    (Called("reload") /\ Pre.state = WAITING) =>
        ch.failures = Pre.failures + (IF last.args.increase_failures THEN 1 ELSE 0)

\* C11: a challenge that is not FAILED has failures <= allowed_retries,
\* whatever the sequence of begin, check, reload and cancel; stated for the
\* challenges whose allowed_retries is positive.
C11_FailuresWithinRetries ==
    (ch.allowed_retries >= 1 /\ ch.state # FAILED) =>
        ch.failures <= ch.allowed_retries

\* C12: cancel on a PENDING or WAITING challenge moves it to FAILURE
\* (cancelled) with the CANCELLED reason; failures, attempted_tries and code
\* are unchanged.
C12_Cancel ==
    (Called("cancel") /\ Pre.state \in {PENDING, WAITING}) =>
        /\ last.err = NoError
        /\ ch.state = FAILURE
        /\ ch.fail_reason = CANCELLED
        /\ ch.failures = Pre.failures
        /\ ch.attempted_tries = Pre.attempted_tries
        /\ ch.code = Pre.code

\* cancel of a running challenge that has already failed an answer
C12_Witness ==
    /\ Called("cancel")
    /\ Pre.state = WAITING
    /\ Pre.failures > 0
    /\ ch.state = FAILURE
    /\ ch.fail_reason = CANCELLED

\* C13: no partial failure: a call that raises an error leaves the state,
\* failures, attempted_tries, code and fail_reason as they were, an error of
\* the generator included.  The TooManyRetriesError of check, raised once the
\* whole transition to FAILED is applied, is not counted as a rejection.
C13_NoPartialFailure ==
    (/\ last.op # "none"
     /\ last.err # NoError
     /\ ~(Called("check") /\ last.err.type = "TooManyRetriesError")) =>
        /\ ch.state = Pre.state
        /\ SameCounters

(***************************************************************************)
(* Properties of the queue.  qlast is the last call made on the queue or   *)
(* on one of its challenges: QPre is the queue and its challenges before   *)
(* the call, q and heap what they are after it.                            *)
(***************************************************************************)
QPre == qlast.pre[1]

QCalled(op) == qlast.op = op

\* the last call named an identifier that was registered
Registered == qlast.args.challenge_id \in DOMAIN QPre.q.queue

\* the reference registered under the identifier of the last call
QRef == QPre.q.queue[qlast.args.challenge_id]

\* C14: delete_challenge on an identifier whose challenge is PENDING or
\* WAITING moves the challenge to FAILURE (cancelled) with the CANCELLED
\* reason and removes the entry; the challenge, reached by the reference the
\* caller kept, then rejects begin with ChallengeCompletionError and check,
\* reload and cancel with TypeError.
C14_DeleteCancels ==
    /\ (/\ QCalled("delete_challenge")
        /\ Registered
        /\ QPre.heap[QRef].state \in {PENDING, WAITING}) =>
            /\ qlast.err = NoError
            /\ heap[QRef].state = FAILURE
            /\ heap[QRef].fail_reason = CANCELLED
            /\ qlast.args.challenge_id \notin DOMAIN q.queue
    /\ (QCalled("begin") /\ qlast.args.ref \in qhist.deleted) =>
            qlast.err.type = "ChallengeCompletionError"
    /\ (qlast.op \in {"check", "reload", "cancel"} /\ qlast.args.ref \in qhist.deleted) =>
            qlast.err.type = "TypeError"

\* begin on a challenge that delete_challenge removed
C14_Witness ==
    /\ QCalled("begin")
    /\ qlast.args.ref \in qhist.deleted
    /\ heap[qlast.args.ref].state = FAILURE
    /\ heap[qlast.args.ref].fail_reason = CANCELLED
    /\ qlast.err.type = "ChallengeCompletionError"

\* C15: delete_challenge on an identifier whose challenge is already
\* terminal (COMPLETED, FAILED or FAILURE) raises no error, leaves the
\* challenge's state and fail_reason unchanged and removes the entry.
C15_DeleteTerminal ==
    (/\ QCalled("delete_challenge")
     /\ Registered
     /\ QPre.heap[QRef].state \in Terminal) =>
        /\ qlast.err = NoError
        /\ heap[QRef].state = QPre.heap[QRef].state
        /\ heap[QRef].fail_reason = QPre.heap[QRef].fail_reason
        /\ qlast.args.challenge_id \notin DOMAIN q.queue

\* C16: a delete_challenge(X) that returns removes exactly the entry X: every
\* other entry maps to the same challenge, which is unchanged, and
\* get_challenge(X) and delete_challenge(X) then raise
\* NonexistingChallengeError; get_challenge and delete_challenge on an
\* absent identifier raise NonexistingChallengeError and change nothing.
C16_QueueIsolation ==
    /\ (QCalled("delete_challenge") /\ qlast.err = NoError) =>
            /\ DOMAIN q.queue = DOMAIN QPre.q.queue \ {qlast.args.challenge_id}
            /\ \A id \in DOMAIN q.queue :
                   /\ q.queue[id] = QPre.q.queue[id]
                   /\ heap[q.queue[id]] = QPre.heap[q.queue[id]]
            /\ get_challenge(q, heap, qlast.args.challenge_id).err.type
                   = "NonexistingChallengeError"
            /\ delete_challenge(q, heap, qlast.args.challenge_id).err.type
                   = "NonexistingChallengeError"
    /\ (qlast.op \in {"get_challenge", "delete_challenge"} /\ ~Registered) =>
            /\ qlast.err.type = "NonexistingChallengeError"
            /\ q = QPre.q
            /\ heap = QPre.heap

\* a delete_challenge that leaves another entry in the registry
C16_Witness ==
    /\ QCalled("delete_challenge")
    /\ qlast.err = NoError
    /\ DOMAIN q.queue # {}
    /\ DOMAIN QPre.q.queue = DOMAIN q.queue \cup {qlast.args.challenge_id}

C18_GetChallenge ==
    QCalled("get_challenge") =>
        /\ qlast.args.challenge_id \in DOMAIN qhist.latest =>
               /\ qlast.err = NoError
               /\ qlast.ret = Some(qhist.latest[qlast.args.challenge_id])
        /\ ~Registered => qlast.err.type = "NonexistingChallengeError"
        /\ q = QPre.q
        /\ heap = QPre.heap

\* get_challenge of an identifier created twice returns the second challenge
C18_Witness ==
    /\ QCalled("get_challenge")
    /\ qlast.err = NoError
    /\ qlast.ret = Some(2)
    /\ heap[1].challenge_id = heap[2].challenge_id

\* the identifier a create_challenge that returned has registered
CreatedId == heap[qlast.ret[1]].challenge_id

\* the references the registry holds
RegisteredRefs(qs) == {qs.queue[id] : id \in DOMAIN qs.queue}

C20_KeepsUncompleted ==
    (/\ QCalled("create_challenge")
     /\ qlast.err = NoError
     /\ CreatedId \in DOMAIN QPre.q.queue
     /\ QPre.heap[QPre.q.queue[CreatedId]].state \in {PENDING, WAITING}) =>
        q.queue[CreatedId] = QPre.q.queue[CreatedId]

\* C21: no queue with zero generators ever exists, the constructor having
\* rejected the empty collection, so create_challenge is never called on a
\* queue whose generator list is empty.
C21_NoEmptyGenerators ==
    /\ q.generators # <<>>
    /\ ~(QCalled("create_challenge") /\ QPre.q.generators = <<>>)

\* every thread has returned from a create_challenge called without an
\* identifier
AllCreated ==
    \A t \in 1..MaxThreads :
        /\ threads[t].pc = "done"
        /\ threads[t].err = NoError
        /\ threads[t].challenge_id = None

\* C22: create_challenge calls without identifier that run at the same time
\* on one queue behave as if the registry insert and the counter increment
\* were one critical section: no two calls synthesize the same identifier
\* and no increment is lost, so after k calls the counter is k more than at
\* the start and the registry holds k distinct new entries.
C22_CriticalSection ==
    AllCreated =>
        /\ \A t1, t2 \in 1..MaxThreads :
               t1 # t2 => threads[t1].id # threads[t2].id
        /\ q.total_challenges = MaxThreads
        /\ Cardinality(DOMAIN q.queue) = MaxThreads

(***************************************************************************)
(* Properties of the cached Captcha.                                       *)
(***************************************************************************)
\* the last call read the captcha: it is a begin, check or reload that was
\* not rejected, or a read of the property
Fetched ==
    \/ Called("captcha")
    \/ (last.op \in {"begin", "reload"} /\ last.err = NoError)
    \/ (Called("check") /\ last.err.type \in {"None", "TooManyRetriesError"})

\* C23: a fetch of the captcha made while the challenge still holds the code
\* of the fetch before it returns the very Captcha cached by that fetch and
\* does not invoke the generator.
C23_IdempotentCaching ==
    (/\ Fetched
     /\ Pre.last_captcha_class # None
     /\ Pre.last_code = Some(ch.code)) =>
        /\ last.calls = 0
        /\ ch.last_captcha_class = Pre.last_captcha_class
        /\ Called("captcha") => last.ret = Pre.last_captcha_class
        /\ last.op \in {"begin", "reload"} =>
               last.ret = Some(Pre.last_captcha_class[1].captcha_object)

\* the captcha read twice in a row: one generator invocation, one instance
C23_Witness ==
    /\ Called("captcha")
    /\ Pre.last_captcha_class # None
    /\ last.ret = Pre.last_captcha_class
    /\ gen_calls = 1
    /\ hist.ops = 2

\* C24: every reload that returns invokes the generator and leaves a cached
\* Captcha that is another instance than the one cached before the reload.
C24_ReloadInvalidates ==
    (Called("reload") /\ last.err = NoError /\ Pre.last_captcha_class # None) =>
        /\ last.calls = 1
        /\ ch.last_captcha_class[1].oid # Pre.last_captcha_class[1].oid

\* C26: over the life of a challenge the generator is invoked at most once
\* with each code value, a code value drawn again by a later reload
\* included.
C26_OncePerCode ==
    \A i, j \in 1..Len(hist.generated) :
        i # j => hist.generated[i] # hist.generated[j]

\* C27: the cached Captcha, when there is one, holds the code the challenge
\* holds and an artifact the generator made for that code, and the artifact
\* or Captcha a begin, reload or fetch returns is the one of that code.
C27_CacheCoherence ==
    /\ ch.last_captcha_class # None =>
           /\ ch.last_captcha_class[1].code = ch.code
           /\ ch.last_captcha_class[1].captcha_object.text = ch.code
           /\ ch.last_code = Some(ch.code)
    /\ (last.op \in {"begin", "reload"} /\ last.err = NoError) =>
           last.ret[1].text = ch.code
    /\ Called("captcha") =>
           /\ last.ret[1].code = ch.code
           /\ last.ret[1].captcha_object.text = ch.code

\* a reload that drew another code and left the cache on the new code
C27_Witness ==
    /\ Called("reload")
    /\ last.err = NoError
    /\ ch.code # Pre.code
    /\ Pre.last_captcha_class # None
    /\ ch.last_captcha_class[1].code = ch.code
    /\ last.ret[1].text = ch.code

\* C25: Captcha.check is pure: the call leaves the code and the artifact of
\* the Captcha as they were, and the same call made again on the Captcha
\* returns the same value and again changes nothing, for every force_casing
\* and remove_spaces.
C25_CheckIsPure ==
    cap_last.pre # None =>
        LET again == CaptchaCheckCall(cap, cap_last.text, cap_last.force_casing,
                                      cap_last.remove_spaces)
        IN  /\ cap.code = cap_last.pre[1].code
            /\ cap.captcha_object = cap_last.pre[1].captcha_object
            /\ cap = cap_last.pre[1]
            /\ Some(again.ret) = cap_last.ret
            /\ again.captcha = cap

\* a check without casing that accepts an upper-case code
C25_Witness ==
    /\ cap_last.pre # None
    /\ ~cap_last.force_casing
    /\ cap_last.ret = Some(TRUE)
    /\ cap.code # Lower(cap.code)
    /\ cap.code = cap_last.pre[1].code

\* C28: on a queue built without an imported queue, every key of the
\* registry is the challenge_id of the challenge registered under it.
C28_KeysAreIdentifiers ==
    \A id \in DOMAIN q.queue :
        /\ q.queue[id] \in 1..Len(heap)
        /\ heap[q.queue[id]].challenge_id = id

\* a challenge created with an explicit identifier after one created
\* without, both registered under their own identifier
C28_Witness ==
    /\ QCalled("create_challenge")
    /\ qlast.args.challenge_id = Some(<<"1">>)
    /\ qlast.err = NoError
    /\ QPre.q.total_challenges = 1
    /\ DOMAIN q.queue = {<<"0">>, <<"1">>}
    /\ heap[q.queue[<<"1">>]].challenge_id = <<"1">>

\* C29: the state changes along the lifecycle graph only: PENDING is never
\* entered, WAITING is entered only from PENDING and only by begin,
\* COMPLETED and FAILED only by check, FAILURE (cancelled) only by cancel;
\* every other call leaves the state as it was.
C29_LifecycleGraph ==
    (last.op # "none" /\ ch.state # Pre.state) =>
        /\ ch.state # PENDING
        /\ ch.state = WAITING => (Called("begin") /\ Pre.state = PENDING)
        /\ ch.state \in {COMPLETED, FAILED} => Called("check")
        /\ ch.state = FAILURE => Called("cancel")
        /\ Pre.state \notin Terminal

\* a running challenge failed by a wrong answer
C29_Witness ==
    /\ Called("check")
    /\ Pre.state = WAITING
    /\ ch.state = FAILED
    /\ hist.reloads > 0

\* C30: failures and attempted_tries are 0 on a new challenge and no call
\* makes either smaller; reload does not reset failures; neither changes
\* once the challenge is terminal.
C30_CountersMonotonic ==
    /\ last.op = "none" => (ch.failures = 0 /\ ch.attempted_tries = 0)
    /\ last.op # "none" =>
           /\ ch.failures >= Pre.failures
           /\ ch.attempted_tries >= Pre.attempted_tries
           /\ Pre.state \in Terminal =>
                  /\ ch.failures = Pre.failures
                  /\ ch.attempted_tries = Pre.attempted_tries

\* a reload made after a wrong answer keeps the failure counted
C30_Witness ==
    /\ Called("reload")
    /\ last.err = NoError
    /\ Pre.failures > 0
    /\ ch.failures >= Pre.failures
    /\ ch.state = WAITING

\* C31: fail_reason is None while the state is PENDING, WAITING or
\* COMPLETED, is the TOO_MANY_RETRIES reason when the state is FAILED and the
\* CANCELLED reason when the state is FAILURE (cancelled).
C31_FailReason ==
    /\ ch.state \in {PENDING, WAITING, COMPLETED} => ch.fail_reason = NoReason
    /\ ch.state = FAILED => ch.fail_reason = TOO_MANY_RETRIES
    /\ ch.state = FAILURE => ch.fail_reason = CANCELLED

\* a challenge cancelled after a wrong answer, and one failed by check
C31_Witness ==
    \/ (Called("cancel") /\ Pre.failures > 0 /\ Pre.fail_reason = NoReason
        /\ ch.state = FAILURE /\ ch.fail_reason = CANCELLED)
    \/ (Called("check") /\ Pre.fail_reason = NoReason
        /\ ch.state = FAILED /\ ch.fail_reason = TOO_MANY_RETRIES)

(***************************************************************************)
(* Properties of the arguments of Challenge(...).                          *)
(***************************************************************************)
\* C32: allowed_retries is a positive integer fixed at creation: it is at
\* least 1 for every retries argument, an integer or none, it is 3 when the
\* argument is omitted, and no call changes it.
C32_PositiveRetries ==
    /\ last.op = "__init__" =>
           /\ ch.allowed_retries >= 1
           /\ last.args.allowed_retries = None => ch.allowed_retries = 3
    /\ last.op \notin {"none", "__init__"} =>
           /\ ch.allowed_retries >= 1
           /\ ch.allowed_retries = Pre.allowed_retries

\* the code is made of letters of the alphabet of random_code
IsRandomCode(code) == \A i \in 1..Len(code) : code[i] \in RandomAlphabet

\* C33: a code the challenge generates itself is made of upper-case letters
\* and digits only; at creation without a code its length is code_length,
\* or 4 when code_length is omitted; the code a reload draws has length 4.
C33_GeneratedCode ==
    /\ (last.op = "__init__" /\ last.args.code = None) =>
           /\ IsRandomCode(ch.code)
           /\ Len(ch.code) = IF last.args.code_length = None THEN 4
                             ELSE last.args.code_length[1]
    /\ (Called("reload") /\ last.err = NoError) =>
           /\ IsRandomCode(ch.code)
           /\ Len(ch.code) = 4

(***************************************************************************)
(* Properties of TextGenerator.generate.                                   *)
(***************************************************************************)
\* the separators generate may put in a gap
Separators ==
    IF tgen.separator.kind = "str" THEN {tgen.separator.value}
    ELSE {tgen.separator.value[i] : i \in 1..Len(tgen.separator.value)}

\* the characters the separators are made of
SeparatorChars == UNION {{s[i] : i \in 1..Len(s)} : s \in Separators}

\* the characters of text with seps[i] between the i-th and the next
RECURSIVE Interleave(_, _)
Interleave(text, seps) ==
    IF Len(text) <= 1 THEN text
    ELSE <<text[1]>> \o seps[1] \o Interleave(Tail(text), Tail(seps))

\* the string without the characters of the set
RECURSIVE RemoveAll(_, _)
RemoveAll(s, chars) ==
    IF s = <<>> THEN <<>>
    ELSE (IF s[1] \in chars THEN <<>> ELSE <<s[1]>>) \o RemoveAll(Tail(s), chars)

\* the output is the text with exactly one separator in each gap
OneSeparatorPerGap ==
    /\ tgen.err = NoError
    /\ \E seps \in [1..(Len(tgen.text) - 1) -> Separators] :
           tgen.ret = Some(Interleave(tgen.text, seps))

\* C34 as stated: generate returns the characters of text in order with
\* exactly one separator between adjacent characters and none at the ends,
\* and the output without the separators is text.
C34_Generate ==
    tgen.called =>
        /\ OneSeparatorPerGap
        /\ RemoveAll(tgen.ret[1], SeparatorChars) = tgen.text

\* C34 amended: with an empty list of separators generate raises IndexError
\* on a text that is not empty; otherwise it returns the characters of text
\* in order with exactly one separator in each gap and none at the ends, and
\* the output without the separators is text when no character of text is a
\* character of a separator.
C34_GenerateAmended ==
    tgen.called =>
        IF tgen.separator.kind = "list" /\ tgen.separator.value = <<>>
           /\ tgen.text # <<>>
        THEN tgen.err.type = "IndexError"
        ELSE /\ OneSeparatorPerGap
             /\ ({tgen.text[i] : i \in 1..Len(tgen.text)} \cap SeparatorChars = {}) =>
                    RemoveAll(tgen.ret[1], SeparatorChars) = tgen.text

\* a text of three characters joined with two different separators of a list
C34_Witness ==
    /\ tgen.called
    /\ tgen.separator.kind = "list"
    /\ tgen.text = <<"A", "B", "A">>
    /\ tgen.ret = Some(<<"A", "+", "B", "-", "A">>)

C36_SynthesizedIsNew ==
    (/\ QCalled("create_challenge")
     /\ qlast.err = NoError
     /\ qlast.args.challenge_id = None) =>
        /\ CreatedId \notin DOMAIN QPre.q.queue
        /\ \A id \in DOMAIN QPre.q.queue :
               id \in DOMAIN q.queue /\ q.queue[id] = QPre.q.queue[id]

\* C37: a challenge does not absorb more than allowed_retries wrong answers:
\* the wrong checks made never outnumber allowed_retries, and once
\* allowed_retries wrong checks are made the challenge is FAILED.
C37_FailsWithinRetries ==
    hist.wrong_checks > 0 =>
        /\ hist.wrong_checks <= ch.allowed_retries
        /\ hist.wrong_checks = ch.allowed_retries => ch.state = FAILED

\* C38: is_completed is True exactly when the state is COMPLETED or FAILED,
\* is_correct and is_wrong are None exactly when it is False; a cancelled
\* challenge reports is_completed False and is_correct and is_wrong None
\* while check, reload and cancel reject it.
C38_Completion ==
    /\ is_completed(ch) <=> ch.state \in {COMPLETED, FAILED}
    /\ (is_correct(ch) = None) <=> ch.state \notin {COMPLETED, FAILED}
    /\ (is_wrong(ch) = None) <=> ch.state \notin {COMPLETED, FAILED}
    /\ ch.state = COMPLETED => (is_correct(ch) = Some(TRUE) /\ is_wrong(ch) = Some(FALSE))
    /\ ch.state = FAILED => (is_correct(ch) = Some(FALSE) /\ is_wrong(ch) = Some(TRUE))
    /\ ch.state = FAILURE =>
           /\ ~is_completed(ch)
           /\ is_correct(ch) = None
           /\ is_wrong(ch) = None
           /\ check(ch, gen_calls, ch.code, FALSE, TRUE).err.type = "TypeError"
           /\ reload(ch, gen_calls, ch.code, TRUE, FALSE).err.type = "TypeError"
           /\ cancel(ch).err.type = "TypeError"

\* a challenge that has just been cancelled
C38_Witness ==
    /\ Called("cancel")
    /\ last.err = NoError
    /\ ch.state = FAILURE
    /\ is_correct(ch) = None
    /\ ~is_completed(ch)

====
